---- MODULE Spec2Model ----
(***************************************************************************)
(* Exam-session / marks lifecycle of the dcis-api school backend.          *)
(*                                                                         *)
(* The model follows the Express handlers of routes/exam.js, the exam      *)
(* marks controller (recordMarks, updateMarks), the authorize middleware   *)
(* and the mongoose schemas ExamSession and StudentMark.  Every handler is *)
(* one action: it runs the middleware chain, the handler body and the      *)
(* final save (with schema validation) to completion.                      *)
(***************************************************************************)
EXTENDS Integers, Sequences, FiniteSets, TLC

(***************************************************************************)
(* Bounds of the model                                                     *)
(***************************************************************************)
MaxTime == 2
MaxSessions == 1
MaxMarks == 2
MaxBatch == 2

(***************************************************************************)
(* JavaScript values: an optional value is <<>> (undefined) or <<v>>.      *)
(***************************************************************************)
Undefined == <<>>

Some(v) == <<v>>

Has(x) == x # <<>>

Val(x) == x[1]

\* JavaScript truthiness of an optional number: undefined and 0 are falsy.
TruthyNum(x) == Has(x) /\ Val(x) # 0

\* JavaScript truthiness of an optional string: undefined and "" are falsy.
TruthyStr(x) == Has(x) /\ Val(x) # ""

(***************************************************************************)
(* Reference data: users, programs, students, subjects                     *)
(***************************************************************************)
Roles == {"superadmin", "admin", "teacher", "parent"}

\* Program documents; the name is one of the schema's enum values.
ProgramIds == {"pK", "pP", "pC"}

ProgramName(p) ==
  CASE p = "pK" -> "Kindergarten"
    [] p = "pP" -> "Primary"
    [] p = "pC" -> "Creche"

\* String.prototype.toLowerCase on the program names in use.
ToLowerCase(name) ==
  CASE name = "Kindergarten" -> "kindergarten"
    [] name = "Primary" -> "primary"
    [] name = "Creche" -> "creche"

\* Student documents; class.program of the student's class is a program id.
StudentIds == {"st1", "st2"}

ClassProgram(st) == IF st = "st1" THEN "pK" ELSE "pP"

\* guardianInfo: the students the parent user is a guardian of.
ParentChildren == {"st1"}

SubjectIds == {"math"}

\* An id that matches no document of any collection.
NoId == "none"

(***************************************************************************)
(* authorize middleware: roles is the rest-parameter array, each element   *)
(* either a string or an array of strings; includes() compares with        *)
(* SameValueZero, so a role string never equals an array element.          *)
(***************************************************************************)
Str(s) == [tag |-> "string", val |-> s]

Arr(a) == [tag |-> "array", val |-> a]

authorize(roles, role) ==
  \E i \in 1..Len(roles) : roles[i].tag = "string" /\ roles[i].val = role

(***************************************************************************)
(* Request inputs                                                          *)
(***************************************************************************)
\* Bodies of POST /record and PUT /:id of the marks routes.
Payload(g, ae, mi, en, c) ==
  [grade |-> g, academicEngagement |-> ae, midtermExam |-> mi,
   endtermExam |-> en, teacherComment |-> c]

Payloads ==
  { Payload(Some("A"), Some(15), Some(70), Some(90), Some("good")),
    Payload(Some("A"), Undefined, Undefined, Undefined, Some("good")),
    Payload(Undefined, Some(18), Some(60), Some(95), Some("good")),
    Payload(Undefined, Some(21), Some(70), Some(101), Some("good")),
    Payload(Undefined, Some(15), Some(70), Some(90), Undefined) }

\* Dates are instants of the model clock.
Dates == 0..MaxTime

\* Bodies of POST / (create session): the dates the caller asks for.  The two
\* marks deadlines are part of the documented request; the handler does not
\* read them.
SessionConfig(sd, ed, fd, sdl, pub) ==
  [startDate |-> sd, endDate |-> ed, firstMarksDeadline |-> fd,
   secondMarksDeadline |-> sdl, publicationDateTime |-> pub]

SessionConfigs ==
  { SessionConfig(0, 2, 1, 1, 2),
    SessionConfig(0, 2, 0, 1, 2),
    SessionConfig(1, 0, 1, 1, 2),
    SessionConfig(0, 2, 1, 1, 1),
    SessionConfig(0, 2, 1, 2, 2) }

SessionTypeInputs == {Some("midterm"), Some("endterm"), Some("kindergarten"), Undefined}

\* Scores of the embedded (legacy) mark list; the schema gives score no range.
ScoreInputs == {85, 150}

\* marks array of a submit-marks body: entries {studentId, score}.
BatchEntries == [studentId : StudentIds, score : ScoreInputs]

RECURSIVE SeqsUpTo(_, _)
SeqsUpTo(S, n) ==
  IF n = 0 THEN {<<>>}
  ELSE LET shorter == SeqsUpTo(S, n - 1)
       IN shorter \cup {Append(q, x) : q \in {r \in shorter : Len(r) = n - 1}, x \in S}

Batches == SeqsUpTo(BatchEntries, MaxBatch) \ {<<>>}

(***************************************************************************)
(* Schemas                                                                 *)
(***************************************************************************)
GradeEnum == {"A", "B", "C", "D", "E"}

ProgramLevelEnum == {"kindergarten", "primary", "secondary", "highschool"}

SessionTypeEnum == {"midterm", "endterm", "kindergarten"}

\* min/max validators of a Number path: they run only when the path is set.
InRange(x, lo, hi) == Has(x) => (Val(x) >= lo /\ Val(x) <= hi)

\* studentMarkSchema with the min/max validators of the three Number paths
\* taken out.
ValidStudentMarkNoRange(m) ==
  /\ m.programLevel \in ProgramLevelEnum
  /\ Has(m.sessionType) /\ Val(m.sessionType) \in SessionTypeEnum
  /\ Has(m.grade) => Val(m.grade) \in GradeEnum
  /\ m.programLevel = "kindergarten" => Has(m.grade)
  /\ (m.sessionType = Some("midterm") /\ m.programLevel # "kindergarten")
        => (Has(m.academicEngagement) /\ Has(m.midtermExam))
  /\ (m.sessionType = Some("endterm") /\ m.programLevel # "kindergarten")
        => Has(m.endtermExam)
  /\ TruthyStr(m.teacherComment)
  /\ TruthyStr(m.term)

\* studentMarkSchema: the validation mongoose runs in save().
ValidStudentMark(m) ==
  /\ m.programLevel \in ProgramLevelEnum
  /\ Has(m.sessionType) /\ Val(m.sessionType) \in SessionTypeEnum
  /\ Has(m.grade) => Val(m.grade) \in GradeEnum
  /\ m.programLevel = "kindergarten" => Has(m.grade)
  /\ InRange(m.academicEngagement, 0, 20)
  /\ InRange(m.midtermExam, 0, 80)
  /\ InRange(m.endtermExam, 0, 100)
  /\ (m.sessionType = Some("midterm") /\ m.programLevel # "kindergarten")
        => (Has(m.academicEngagement) /\ Has(m.midtermExam))
  /\ (m.sessionType = Some("endterm") /\ m.programLevel # "kindergarten")
        => Has(m.endtermExam)
  /\ TruthyStr(m.teacherComment)
  /\ TruthyStr(m.term)

\* finalGrade virtual of studentMarkSchema.
finalGrade(m) ==
  IF m.programLevel = "kindergarten" THEN m.grade
  ELSE IF m.sessionType = Some("midterm")
         THEN IF Has(m.academicEngagement) /\ Has(m.midtermExam)
                THEN Some(Val(m.academicEngagement) + Val(m.midtermExam))
                ELSE Undefined
  ELSE IF m.sessionType = Some("endterm") THEN m.endtermExam
  ELSE Undefined

\* examSessionSchema: the validation mongoose runs in save().
ValidExamSession(s) ==
  /\ TruthyStr(s.academicYear)
  /\ TruthyStr(s.term)
  /\ Has(s.sessionType) /\ Val(s.sessionType) \in SessionTypeEnum
  /\ Has(s.startDate) /\ Has(s.endDate) /\ Has(s.publicationDateTime)

(***************************************************************************)
(* State                                                                   *)
(***************************************************************************)
VARIABLES
  now,            \* the server clock
  sessions,       \* ExamSession collection: id -> Undefined | Some(document)
  created,        \* number of ExamSession ids handed out so far
  requested,      \* history: id -> the body the session was created with
  studentMarks,   \* StudentMark collection: the documents, _id = position
  gradingScales,  \* Settings: program name -> Undefined | Some(bands)
  last,           \* history: the request just served and the response it got
  inflight        \* recordMarks calls in progress: worker -> its position and locals

vars == <<now, sessions, created, requested, studentMarks, gradingScales, last, inflight>>

SessionIds == 1..MaxSessions

\* The last-request record before any request was served.
NoRequest ==
  [op |-> "none", role |-> "none", status |-> 0, message |-> "",
   sid |-> 0, student |-> NoId, markId |-> 0, payload |-> Undefined,
   config |-> Undefined, batch |-> <<>>, report |-> Undefined]

\* A request of a caller, not yet answered.
Request(op, role) == [NoRequest EXCEPT !.op = op, !.role = role]

\* res.status(status).json({message | error}).
Respond(req, status, message) ==
  [req EXCEPT !.status = status, !.message = message]

Forbidden == "You do not have permission to perform this action"

\* Model.findById on the ExamSession collection.
FindSession(sid) ==
  IF sid \in SessionIds THEN sessions[sid] ELSE Undefined

\* Model.findById on the StudentMark collection.
FindMark(markId) ==
  IF markId \in 1..Len(studentMarks) THEN Some(studentMarks[markId]) ELSE Undefined

\* The requests the server may be serving at once.
Workers == {"w1", "w2"}

\* A worker with no recordMarks call in progress.
Idle ==
  [pc |-> "idle", role |-> "none", examSessionId |-> 0, studentId |-> NoId,
   subjectId |-> NoId, prg |-> NoId, body |-> Undefined, examSession |-> Undefined,
   status |-> 0, markId |-> 0]

Init ==
  /\ now = 0
  /\ sessions = [i \in SessionIds |-> Undefined]
  /\ created = 0
  /\ requested = [i \in SessionIds |-> Undefined]
  /\ studentMarks = <<>>
  /\ gradingScales = [p \in {ProgramName(q) : q \in ProgramIds} |-> Undefined]
  /\ last = NoRequest
  /\ inflight = [w \in Workers |-> Idle]

\* Time passes between requests; no request is being served.
Tick ==
  /\ now < MaxTime
  /\ now' = now + 1
  /\ last' = NoRequest
  /\ UNCHANGED <<sessions, created, requested, studentMarks, gradingScales, inflight>>

(***************************************************************************)
(* routes/exam.js: exam sessions                                           *)
(***************************************************************************)
\* The document new ExamSession({...}) builds from the create body; paths the
\* schema does not declare are dropped, isOpen and marks take their defaults.
NewExamSession(cfg, stype, sess) ==
  [academicYear |-> sess, term |-> Some("T1"), sessionType |-> stype,
   startDate |-> Some(cfg.startDate), endDate |-> Some(cfg.endDate),
   publicationDateTime |-> Some(cfg.publicationDateTime),
   programs |-> <<>>, classes |-> <<>>, isOpen |-> TRUE, marks |-> <<>>]

\* POST / : create an exam session.
CreateSession(role, cfg, stype, sess) ==
  LET req == [Request("createSession", role) EXCEPT !.config = Some(cfg)]
      examSession == NewExamSession(cfg, stype, sess)
  IN
  /\ UNCHANGED <<now, studentMarks, gradingScales, inflight>>
  /\ IF ~authorize(<<Str("admin"), Str("superadmin")>>, role)
       THEN /\ last' = Respond(req, 403, Forbidden)
            /\ UNCHANGED <<sessions, created, requested>>
     ELSE IF ~Has(sess)
       \* session[0] on undefined throws
       THEN /\ last' = Respond(req, 500, "TypeError")
            /\ UNCHANGED <<sessions, created, requested>>
     ELSE IF ~ValidExamSession(examSession)
       THEN /\ last' = Respond(req, 500, "ValidationError")
            /\ UNCHANGED <<sessions, created, requested>>
     ELSE /\ created < MaxSessions
          /\ created' = created + 1
          /\ sessions' = [sessions EXCEPT ![created + 1] = Some(examSession)]
          /\ requested' = [requested EXCEPT ![created + 1] = Some(cfg)]
          /\ last' = [Respond(req, 201, "") EXCEPT !.sid = created + 1]

\* Bodies of PUT /:id : the paths to set.
UpdateBody(sd, ed, pub, open, marks) ==
  [startDate |-> sd, endDate |-> ed, publicationDateTime |-> pub,
   isOpen |-> open, marks |-> marks]

EmbeddedMark(st, subj, score, by, at) ==
  [student |-> st, subject |-> subj, score |-> score, submittedBy |-> by,
   submittedAt |-> at]

\* An element of marks stored without a score.
EmbeddedMarkNoScore(st, subj, by, at) ==
  [student |-> st, subject |-> subj, submittedBy |-> by, submittedAt |-> at]

\* findByIdAndUpdate(id, body): $set of every path the body carries.
ApplyUpdate(doc, body) ==
  [doc EXCEPT
     !.startDate = IF Has(body.startDate) THEN body.startDate ELSE @,
     !.endDate = IF Has(body.endDate) THEN body.endDate ELSE @,
     !.publicationDateTime =
        IF Has(body.publicationDateTime) THEN body.publicationDateTime ELSE @,
     !.isOpen = IF Has(body.isOpen) THEN Val(body.isOpen) ELSE @,
     !.marks = IF Has(body.marks) THEN Val(body.marks) ELSE @]

\* PUT /:id : update an exam session.
UpdateSession(role, sid, body) ==
  LET req == [Request("updateSession", role) EXCEPT !.sid = sid]
  IN
  /\ UNCHANGED <<now, created, requested, studentMarks, gradingScales, inflight>>
  /\ IF ~authorize(<<Str("admin"), Str("superadmin")>>, role)
       THEN /\ last' = Respond(req, 403, Forbidden)
            /\ UNCHANGED sessions
     ELSE IF ~Has(FindSession(sid))
       THEN /\ last' = Respond(req, 404, "Exam session not found")
            /\ UNCHANGED sessions
     ELSE /\ sessions' = [sessions EXCEPT ![sid] = Some(ApplyUpdate(Val(@), body))]
          /\ last' = Respond(req, 200, "")

\* A toggle that also empties the embedded mark list.
ToggleStatusClearingMarks(role, sid) ==
  LET req == [Request("toggleStatus", role) EXCEPT !.sid = sid]
      examSession == FindSession(sid)
  IN
  /\ UNCHANGED <<now, created, requested, studentMarks, gradingScales, inflight>>
  /\ IF ~authorize(<<Str("admin"), Str("superadmin")>>, role)
       THEN /\ last' = Respond(req, 403, Forbidden)
            /\ UNCHANGED sessions
     ELSE IF ~Has(examSession)
       THEN /\ last' = Respond(req, 404, "Exam session not found")
            /\ UNCHANGED sessions
     ELSE /\ sessions' = [sessions EXCEPT
                            ![sid] = Some([Val(examSession) EXCEPT
                                             !.isOpen = ~@, !.marks = <<>>])]
          /\ last' = Respond(req, 200,
                        IF ~Val(examSession).isOpen
                          THEN "Exam session opened successfully"
                          ELSE "Exam session closed successfully")

\* PUT /:id/toggle-status : flip isOpen.
ToggleStatus(role, sid) ==
  LET req == [Request("toggleStatus", role) EXCEPT !.sid = sid]
      examSession == FindSession(sid)
  IN
  /\ UNCHANGED <<now, created, requested, studentMarks, gradingScales, inflight>>
  /\ IF ~authorize(<<Str("admin"), Str("superadmin")>>, role)
       THEN /\ last' = Respond(req, 403, Forbidden)
            /\ UNCHANGED sessions
     ELSE IF ~Has(examSession)
       THEN /\ last' = Respond(req, 404, "Exam session not found")
            /\ UNCHANGED sessions
     ELSE /\ sessions' = [sessions EXCEPT
                            ![sid] = Some([Val(examSession) EXCEPT !.isOpen = ~@])]
          /\ last' = Respond(req, 200,
                        IF ~Val(examSession).isOpen
                          THEN "Exam session opened successfully"
                          ELSE "Exam session closed successfully")

\* DELETE /:id : findByIdAndDelete on the ExamSession collection.
DeleteSession(role, sid) ==
  LET req == [Request("deleteSession", role) EXCEPT !.sid = sid]
  IN
  /\ UNCHANGED <<now, created, requested, studentMarks, gradingScales, inflight>>
  /\ IF ~authorize(<<Str("admin"), Str("superadmin")>>, role)
       THEN /\ last' = Respond(req, 403, Forbidden)
            /\ UNCHANGED sessions
     ELSE IF ~Has(FindSession(sid))
       THEN /\ last' = Respond(req, 404, "Exam session not found")
            /\ UNCHANGED sessions
     ELSE /\ sessions' = [sessions EXCEPT ![sid] = Undefined]
          /\ last' = Respond(req, 200, "Exam session deleted successfully")

\* Array.prototype.findIndex over the embedded mark list (0 when none matches).
RECURSIVE findIndex(_, _, _, _)
findIndex(marks, i, studentId, subjectId) ==
  IF i > Len(marks) THEN 0
  ELSE IF marks[i].student = studentId /\ marks[i].subject = subjectId THEN i
  ELSE findIndex(marks, i + 1, studentId, subjectId)

\* marks.forEach of the submit-marks handler: entry k of the batch onwards.
RECURSIVE ProcessMarks(_, _, _, _, _, _)
ProcessMarks(marks, batch, k, subjectId, user, t) ==
  IF k > Len(batch) THEN marks
  ELSE LET mark == batch[k]
           existingMarkIndex == findIndex(marks, 1, mark.studentId, subjectId)
           next ==
             IF existingMarkIndex > 0
               THEN [marks EXCEPT ![existingMarkIndex] =
                       [@ EXCEPT !.score = mark.score, !.submittedBy = user,
                                 !.submittedAt = t]]
               ELSE Append(marks,
                      EmbeddedMark(mark.studentId, subjectId, mark.score, user, t))
       IN ProcessMarks(next, batch, k + 1, subjectId, user, t)

\* A handler that pushes every entry of the body without looking for an
\* existing mark of the student and subject.
SubmitMarksHandlerPushing(req, sid, subjectId, batch) ==
  LET examSession == FindSession(sid)
  IN
  IF ~Has(examSession)
    THEN /\ last' = Respond(req, 404, "Exam session not found")
         /\ UNCHANGED sessions
  ELSE IF ~Val(examSession).isOpen
    THEN /\ last' = Respond(req, 400, "Exam session is closed")
         /\ UNCHANGED sessions
  ELSE /\ sessions' = [sessions EXCEPT ![sid] =
            Some([Val(examSession) EXCEPT !.marks =
                    @ \o [k \in 1..Len(batch) |->
                            EmbeddedMark(batch[k].studentId, subjectId,
                                         batch[k].score, req.role, now)]])]
       /\ last' = Respond(req, 200, "Marks submitted successfully")

\* The handler of POST /:id/marks/:subjectId, behind the middleware.
SubmitMarksHandler(req, sid, subjectId, batch) ==
  LET examSession == FindSession(sid)
  IN
  IF ~Has(examSession)
    THEN /\ last' = Respond(req, 404, "Exam session not found")
         /\ UNCHANGED sessions
  ELSE IF ~Val(examSession).isOpen
    THEN /\ last' = Respond(req, 400, "Exam session is closed")
         /\ UNCHANGED sessions
  ELSE /\ sessions' = [sessions EXCEPT ![sid] =
            Some([Val(examSession) EXCEPT !.marks =
                    ProcessMarks(@, batch, 1, subjectId, req.role, now)])]
       /\ last' = Respond(req, 200, "Marks submitted successfully")

\* POST /:id/marks/:subjectId : submit marks for a subject.  The route is
\* declared with authorize(['admin', 'teacher']): one array argument.
SubmitMarks(role, sid, subjectId, batch) ==
  LET req == [Request("submitMarks", role) EXCEPT !.sid = sid, !.batch = batch]
  IN
  /\ UNCHANGED <<now, created, requested, studentMarks, gradingScales, inflight>>
  /\ IF ~authorize(<<Arr(<<"admin", "teacher">>)>>, role)
       THEN /\ last' = Respond(req, 403, Forbidden)
            /\ UNCHANGED sessions
       ELSE SubmitMarksHandler(req, sid, subjectId, batch)

\* The handler of POST /:id/marks/:subjectId run to completion for a caller
\* the middleware has let through: the lookup, the isOpen test, the forEach
\* over the body's marks and the save.
RunSubmitMarksHandler(role, sid, subjectId, batch) ==
  LET req == [Request("submitMarks", role) EXCEPT !.sid = sid, !.batch = batch]
  IN
  /\ UNCHANGED <<now, created, requested, studentMarks, gradingScales, inflight>>
  /\ SubmitMarksHandler(req, sid, subjectId, batch)

(***************************************************************************)
(* routes/exam.js: report card                                             *)
(***************************************************************************)
\* The program field of a Student document.
StudentProgram(st) == ProgramName(ClassProgram(st))

\* Array.prototype.filter, keeping the order.
RECURSIVE FilterByStudent(_, _)
FilterByStudent(marks, studentId) ==
  IF marks = <<>> THEN <<>>
  ELSE LET rest == FilterByStudent(Tail(marks), studentId)
       IN IF Head(marks).student = studentId THEN <<Head(marks)>> \o rest ELSE rest

\* A resolution that takes the last band containing the score.
ResolveGradeLastBand(gradingScale, score) ==
  LET hits == {i \in 1..Len(gradingScale) :
                 score >= gradingScale[i].minScore /\ score <= gradingScale[i].maxScore}
  IN IF hits = {} THEN "N/A"
     ELSE gradingScale[CHOOSE i \in hits : \A j \in hits : j <= i].grade

\* gradingScale.find(g => score >= g.minScore && score <= g.maxScore), then
\* grade ? grade.grade : 'N/A'.
RECURSIVE ResolveGrade(_, _)
ResolveGrade(gradingScale, score) ==
  IF gradingScale = <<>> THEN "N/A"
  ELSE IF score >= Head(gradingScale).minScore /\ score <= Head(gradingScale).maxScore
    THEN Head(gradingScale).grade
  ELSE ResolveGrade(Tail(gradingScale), score)

RECURSIVE SumScores(_)
SumScores(marks) ==
  IF marks = <<>> THEN 0 ELSE Head(marks).score + SumScores(Tail(marks))

MaxScore(marks) ==
  CHOOSE x \in {marks[i].score : i \in 1..Len(marks)} :
    \A j \in 1..Len(marks) : marks[j].score <= x

MinScore(marks) ==
  CHOOSE x \in {marks[i].score : i \in 1..Len(marks)} :
    \A j \in 1..Len(marks) : marks[j].score >= x

\* mark.score of an embedded mark: score is an optional path of the schema,
\* undefined on a mark stored without it.
Score(mark) == IF "score" \in DOMAIN mark THEN Some(mark.score) ELSE Undefined

\* Every mark of the list carries a score.
AllScored(marks) == \A i \in 1..Len(marks) : Has(Score(marks[i]))

\* The reportCard object; averageScore is the exact quotient sum / count.
\* A comparison with an undefined score is false, so find() yields nothing
\* and the grade is 'N/A'; a sum, Math.max or Math.min over an undefined
\* score is NaN, written Undefined.
BuildReportCard(own, gradingScale) ==
  [marks |-> [i \in 1..Len(own) |->
                [subject |-> own[i].subject,
                 score |-> Score(own[i]),
                 grade |-> IF Has(Score(own[i]))
                             THEN ResolveGrade(gradingScale, own[i].score)
                             ELSE "N/A"]],
   totalSubjects |-> Len(own),
   averageScore |-> IF AllScored(own)
                      THEN Some([sum |-> SumScores(own), count |-> Len(own)])
                      ELSE Undefined,
   highestScore |-> IF AllScored(own) THEN Some(MaxScore(own)) ELSE Undefined,
   lowestScore |-> IF AllScored(own) THEN Some(MinScore(own)) ELSE Undefined]

\* GET /:id/report-card/:studentId : generate a report card from the marks
\* embedded in the session document.
ReportCard(role, sid, studentId) ==
  LET req == [Request("reportCard", role) EXCEPT !.sid = sid, !.student = studentId]
      examSession == FindSession(sid)
      own == FilterByStudent(Val(examSession).marks, studentId)
      gradingScale == gradingScales[StudentProgram(own[1].student)]
  IN
  /\ UNCHANGED <<now, sessions, created, requested, studentMarks, gradingScales, inflight>>
  /\ IF ~Has(examSession)
       THEN last' = Respond(req, 404, "Exam session not found")
     ELSE IF Len(own) = 0
       THEN last' = Respond(req, 404, "No marks found for student")
     ELSE IF ~Has(gradingScale)
       \* gradingScale.find on undefined throws
       THEN last' = Respond(req, 500, "TypeError")
     ELSE last' = [Respond(req, 200, "") EXCEPT
                     !.report = Some(BuildReportCard(own, Val(gradingScale)))]

\* GET /:id : the stored session document, as it is.
GetSession(role, sid) ==
  LET req == [Request("getSession", role) EXCEPT !.sid = sid]
      examSession == FindSession(sid)
  IN
  /\ UNCHANGED <<now, sessions, created, requested, studentMarks, gradingScales, inflight>>
  /\ IF ~Has(examSession)
       THEN last' = Respond(req, 404, "Exam session not found")
       ELSE last' = [Respond(req, 200, "") EXCEPT !.report = examSession]

\* GET /:id/student/:studentId : the embedded marks of a student.
StudentMarksRoute(role, sid, studentId) ==
  LET req == [Request("studentMarks", role) EXCEPT !.sid = sid, !.student = studentId]
      examSession == FindSession(sid)
  IN
  /\ UNCHANGED <<now, sessions, created, requested, studentMarks, gradingScales, inflight>>
  /\ IF ~Has(examSession)
       THEN last' = Respond(req, 404, "Exam session not found")
       ELSE last' = [Respond(req, 200, "") EXCEPT
                       !.report = Some(FilterByStudent(Val(examSession).marks, studentId))]

(***************************************************************************)
(* routes/settings.js                                                      *)
(***************************************************************************)
Band(g, lo, hi) == [grade |-> g, minScore |-> lo, maxScore |-> hi]

ScaleInputs ==
  { <<Band("A", 80, 100), Band("B", 60, 79)>>,
    <<Band("B", 60, 90), Band("A", 80, 100)>> }

\* PUT /academic/grading : gradingScales.set(program, scales).
SetGradingScales(role, program, scales) ==
  LET req == Request("setGradingScales", role)
  IN
  /\ UNCHANGED <<now, sessions, created, requested, studentMarks, inflight>>
  /\ IF ~authorize(<<Str("superadmin")>>, role)
       THEN /\ last' = Respond(req, 403, Forbidden)
            /\ UNCHANGED gradingScales
       ELSE /\ gradingScales' = [gradingScales EXCEPT ![program] = Some(scales)]
            /\ last' = Respond(req, 200, "Grading scales updated successfully")

(***************************************************************************)
(* exam marks controller (routes: POST /record, PUT /:id)                  *)
(***************************************************************************)
\* new StudentMark({...}) of recordMarks: grade is taken from the body only
\* for the program named 'Kindergarten', the numeric fields by session type.
NewStudentMark(studentId, examSessionId, subjectId, prg, examSession, body) ==
  [student |-> studentId,
   examSession |-> examSessionId,
   subject |-> subjectId,
   programLevel |-> ToLowerCase(ProgramName(prg)),
   program |-> prg,
   sessionType |-> examSession.sessionType,
   term |-> examSession.term,
   teacherComment |-> body.teacherComment,
   grade |-> IF ProgramName(prg) = "Kindergarten" THEN body.grade ELSE Undefined,
   academicEngagement |->
     IF examSession.sessionType = Some("midterm")
       THEN body.academicEngagement ELSE Undefined,
   midtermExam |->
     IF examSession.sessionType = Some("midterm") THEN body.midtermExam ELSE Undefined,
   endtermExam |->
     IF examSession.sessionType = Some("endterm") THEN body.endtermExam ELSE Undefined]

\* POST /record : recordMarks.
RecordMarks(role, examSessionId, studentId, subjectId, prg, body) ==
  LET req == [Request("recordMarks", role) EXCEPT
                !.sid = examSessionId, !.payload = Some(body)]
      examSession == FindSession(examSessionId)
      markRecord == NewStudentMark(studentId, examSessionId, subjectId, prg,
                                   Val(examSession), body)
  IN
  /\ UNCHANGED <<now, sessions, created, requested, gradingScales, inflight>>
  /\ IF ~authorize(<<Str("superadmin"), Str("admin"), Str("teacher")>>, role)
       THEN /\ last' = Respond(req, 403, Forbidden)
            /\ UNCHANGED studentMarks
     ELSE IF ~Has(examSession)
       THEN /\ last' = Respond(req, 404, "Exam session not found")
            /\ UNCHANGED studentMarks
     ELSE IF studentId \notin StudentIds
       THEN /\ last' = Respond(req, 404, "Student not found")
            /\ UNCHANGED studentMarks
     ELSE IF prg \notin ProgramIds
       THEN /\ last' = Respond(req, 404, "Program not found for this student in exam session")
            /\ UNCHANGED studentMarks
     ELSE IF ~ValidStudentMark(markRecord)
       THEN /\ last' = Respond(req, 500, "ValidationError")
            /\ UNCHANGED studentMarks
     ELSE /\ Len(studentMarks) < MaxMarks
          /\ studentMarks' = Append(studentMarks, markRecord)
          /\ last' = [Respond(req, 201, "") EXCEPT !.markId = Len(studentMarks) + 1]

\* The assignments of updateMarks to the loaded mark; program is the program
\* of the class of the mark's student.
ApplyMarkUpdates(mark, program, updates) ==
  LET scored ==
        IF ProgramName(program) = "Kindergarten" /\ TruthyStr(updates.grade)
          THEN [mark EXCEPT !.grade = updates.grade]
        ELSE IF mark.sessionType = Some("midterm")
          THEN [mark EXCEPT
                  !.academicEngagement =
                     IF TruthyNum(updates.academicEngagement)
                       THEN updates.academicEngagement ELSE @,
                  !.midtermExam =
                     IF TruthyNum(updates.midtermExam) THEN updates.midtermExam ELSE @]
        ELSE IF mark.sessionType = Some("endterm")
          THEN [mark EXCEPT
                  !.endtermExam =
                     IF TruthyNum(updates.endtermExam) THEN updates.endtermExam ELSE @]
        ELSE mark
  IN [scored EXCEPT
        !.teacherComment =
           IF TruthyStr(updates.teacherComment) THEN updates.teacherComment ELSE @]

\* updateMarks, were the assignments to reach the collection before the
\* validation of save() refuses them.
UpdateMarksUnvalidated(role, markId, updates) ==
  LET req == [Request("updateMarks", role) EXCEPT
                !.markId = markId, !.payload = Some(updates)]
      mark == FindMark(markId)
      program == ClassProgram(Val(mark).student)
      updated == ApplyMarkUpdates(Val(mark), program, updates)
  IN
  /\ UNCHANGED <<now, sessions, created, requested, gradingScales, inflight>>
  /\ IF ~Has(mark)
       THEN /\ last' = Respond(req, 500, "TypeError")
            /\ UNCHANGED studentMarks
     ELSE /\ studentMarks' = [studentMarks EXCEPT ![markId] = updated]
          /\ last' = IF ValidStudentMark(updated)
                       THEN Respond(req, 200, "")
                       ELSE Respond(req, 500, "ValidationError")

\* PUT /:id : updateMarks.  The route has no authorize middleware.
UpdateMarks(role, markId, updates) ==
  LET req == [Request("updateMarks", role) EXCEPT
                !.markId = markId, !.payload = Some(updates)]
      mark == FindMark(markId)
      program == ClassProgram(Val(mark).student)
      updated == ApplyMarkUpdates(Val(mark), program, updates)
  IN
  /\ UNCHANGED <<now, sessions, created, requested, gradingScales, inflight>>
  /\ IF ~Has(mark)
       \* mark.student on null throws before the 404 branches are reached
       THEN /\ last' = Respond(req, 500, "TypeError")
            /\ UNCHANGED studentMarks
     ELSE IF ~ValidStudentMark(updated)
       THEN /\ last' = Respond(req, 500, "ValidationError")
            /\ UNCHANGED studentMarks
     ELSE /\ studentMarks' = [studentMarks EXCEPT ![markId] = updated]
          /\ last' = Respond(req, 200, "")

(***************************************************************************)
(* recordMarks as the server runs it: the handler yields at every await,   *)
(* so the steps of two calls interleave.                                   *)
(***************************************************************************)
\* The worker's call has been answered.
Answer(w, status) ==
  inflight' = [inflight EXCEPT ![w] = [@ EXCEPT !.pc = "done", !.status = status]]

\* A call arrives: the authorize middleware, then the handler up to its
\* first await.
RecordBegin(w, role, examSessionId, studentId, subjectId, prg, body) ==
  LET call == [Idle EXCEPT !.role = role, !.examSessionId = examSessionId,
                           !.studentId = studentId, !.subjectId = subjectId,
                           !.prg = prg, !.body = Some(body)]
  IN
  /\ inflight[w].pc = "idle"
  /\ UNCHANGED <<now, sessions, created, requested, studentMarks, gradingScales, last>>
  /\ IF ~authorize(<<Str("superadmin"), Str("admin"), Str("teacher")>>, role)
       THEN inflight' = [inflight EXCEPT ![w] = [call EXCEPT !.pc = "done", !.status = 403]]
       ELSE inflight' = [inflight EXCEPT ![w] = [call EXCEPT !.pc = "findSession"]]

\* await ExamSession.findById(examSessionId)
RecordFindSession(w) ==
  LET examSession == FindSession(inflight[w].examSessionId)
  IN
  /\ inflight[w].pc = "findSession"
  /\ UNCHANGED <<now, sessions, created, requested, studentMarks, gradingScales, last>>
  /\ IF ~Has(examSession)
       THEN Answer(w, 404)
       ELSE inflight' = [inflight EXCEPT
                           ![w] = [@ EXCEPT !.pc = "findStudent",
                                            !.examSession = examSession]]

\* await Student.findById(studentId)
RecordFindStudent(w) ==
  /\ inflight[w].pc = "findStudent"
  /\ UNCHANGED <<now, sessions, created, requested, studentMarks, gradingScales, last>>
  /\ IF inflight[w].studentId \notin StudentIds
       THEN Answer(w, 404)
       ELSE inflight' = [inflight EXCEPT ![w] = [@ EXCEPT !.pc = "findProgram"]]

\* await Program.findById(prg)
RecordFindProgram(w) ==
  /\ inflight[w].pc = "findProgram"
  /\ UNCHANGED <<now, sessions, created, requested, studentMarks, gradingScales, last>>
  /\ IF inflight[w].prg \notin ProgramIds
       THEN Answer(w, 404)
       ELSE inflight' = [inflight EXCEPT ![w] = [@ EXCEPT !.pc = "save"]]

\* The save of recordMarks, were it to write the collection back as holding
\* the new document alone.
RecordSaveOverwriting(w) ==
  LET c == inflight[w]
      markRecord == NewStudentMark(c.studentId, c.examSessionId, c.subjectId, c.prg,
                                   Val(c.examSession), Val(c.body))
  IN
  /\ c.pc = "save"
  /\ UNCHANGED <<now, sessions, created, requested, gradingScales, last>>
  /\ IF ~ValidStudentMark(markRecord)
       THEN /\ Answer(w, 500)
            /\ UNCHANGED studentMarks
       ELSE /\ studentMarks' = <<markRecord>>
            /\ inflight' = [inflight EXCEPT
                              ![w] = [@ EXCEPT !.pc = "done", !.status = 201,
                                               !.markId = 1]]

\* new StudentMark({...}) from the session document loaded earlier, then
\* await markRecord.save().
RecordSave(w) ==
  LET c == inflight[w]
      markRecord == NewStudentMark(c.studentId, c.examSessionId, c.subjectId, c.prg,
                                   Val(c.examSession), Val(c.body))
  IN
  /\ c.pc = "save"
  /\ UNCHANGED <<now, sessions, created, requested, gradingScales, last>>
  /\ IF ~ValidStudentMark(markRecord)
       THEN /\ Answer(w, 500)
            /\ UNCHANGED studentMarks
       ELSE /\ studentMarks' = Append(studentMarks, markRecord)
            /\ inflight' = [inflight EXCEPT
                              ![w] = [@ EXCEPT !.pc = "done", !.status = 201,
                                               !.markId = Len(studentMarks) + 1]]

(***************************************************************************)
(* Specifications                                                          *)
(***************************************************************************)
\* (examSessionId, studentId, program) of the recordMarks bodies.
RecordTargets ==
  {<<sid, st, prg>> : sid \in SessionIds, st \in StudentIds, prg \in {"pK", "pP"}}
  \cup {<<sid, "st2", "pC">> : sid \in SessionIds}
  \cup {<<0, "st1", "pK">>, <<1, NoId, "pK">>, <<1, "st1", NoId>>}

\* The marks lifecycle: a session is created and opened or closed, marks are
\* recorded and updated, report cards are read.
CreateForMarks ==
  \E stype \in SessionTypeInputs :
    CreateSession("admin", SessionConfig(0, 2, 1, 1, 2), stype, Some("2024"))

ToggleForMarks == \E sid \in SessionIds : ToggleStatus("admin", sid)

RecordAny ==
  \E role \in {"teacher", "parent"}, tgt \in RecordTargets, subj \in SubjectIds,
     body \in Payloads :
    RecordMarks(role, tgt[1], tgt[2], subj, tgt[3], body)

UpdateAny ==
  \E markId \in 0..MaxMarks, updates \in Payloads : UpdateMarks("teacher", markId, updates)

ReportAny ==
  \E sid \in SessionIds, st \in StudentIds : ReportCard("parent", sid, st)

SubmitForMarks ==
  \E sid \in SessionIds :
    SubmitMarks("teacher", sid, "math", <<[studentId |-> "st1", score |-> 85]>>)

Next ==
  \/ Tick
  \/ CreateForMarks
  \/ ToggleForMarks
  \/ RecordAny
  \/ UpdateAny
  \/ ReportAny
  \/ SubmitForMarks

Spec == Init /\ [][Next]_vars

\* Session administration: sessions are created, updated, toggled and deleted
\* by callers of every role, marks are submitted to the embedded list.
UpdateBodies ==
  {UpdateBody(Undefined, Undefined, Undefined, Some(b), Undefined) : b \in BOOLEAN}
  \cup {UpdateBody(Undefined, Undefined, Some(0), Undefined, Undefined)}
  \cup {UpdateBody(Undefined, Undefined, Undefined, Undefined,
                   Some(<<EmbeddedMark("st2", "math", sc, "admin", 0)>>)) :
          sc \in ScoreInputs}

CreateAny ==
  \E role \in {"admin", "teacher"}, cfg \in SessionConfigs,
     ts \in {<<Some("midterm"), Some("2024")>>, <<Undefined, Some("2024")>>,
             <<Some("midterm"), Undefined>>} :
    CreateSession(role, cfg, ts[1], ts[2])

UpdateSessionAny ==
  \E sid \in 0..MaxSessions, body \in UpdateBodies : UpdateSession("admin", sid, body)

ToggleAny == \E role \in Roles, sid \in 0..MaxSessions : ToggleStatus(role, sid)

DeleteAny == \E role \in {"admin", "parent"}, sid \in 0..MaxSessions : DeleteSession(role, sid)

SubmitAny ==
  \E role \in Roles, sid \in SessionIds, subj \in SubjectIds, batch \in Batches :
    SubmitMarks(role, sid, subj, batch)

ReportAnySession ==
  \E sid \in SessionIds, st \in StudentIds \cup {NoId} : ReportCard("parent", sid, st)

SetGradingAny ==
  \E role \in {"superadmin", "admin"}, scales \in ScaleInputs :
    SetGradingScales(role, "Primary", scales)

NextSessions ==
  \/ Tick
  \/ CreateAny
  \/ UpdateSessionAny
  \/ ToggleAny
  \/ DeleteAny
  \/ SubmitAny
  \/ ReportAnySession
  \/ SetGradingAny

SpecSessions == Init /\ [][NextSessions]_vars

\* Concurrent marks entry: two recordMarks calls are served at once while
\* the session may be deleted and batches are submitted.
ConcurrentTargets ==
  {<<1, "st1", "pP">>, <<1, "st2", "pP">>, <<1, "st1", "pK">>, <<0, "st1", "pP">>,
   <<1, NoId, "pP">>, <<1, "st1", NoId>>}

ConcurrentPayloads ==
  {Payload(Undefined, Some(15), Some(70), Some(90), Some("good")),
   Payload(Some("A"), Some(18), Some(60), Some(95), Some("fair")),
   Payload(Undefined, Some(21), Some(70), Some(101), Some("good"))}

CreateForWorkers ==
  \E stype \in {Some("midterm"), Some("endterm")} :
    CreateSession("admin", SessionConfig(0, 2, 1, 1, 2), stype, Some("2024"))

DeleteForWorkers == DeleteSession("admin", 1)

SubmitForWorkers ==
  \E role \in {"teacher", "parent"} :
    SubmitMarks(role, 1, "math", <<[studentId |-> "st1", score |-> 85]>>)

BeginAny ==
  \E w \in Workers, role \in {"teacher", "parent"}, tgt \in ConcurrentTargets,
     body \in ConcurrentPayloads :
    RecordBegin(w, role, tgt[1], tgt[2], "math", tgt[3], body)

FindSessionAny == \E w \in Workers : RecordFindSession(w)

FindStudentAny == \E w \in Workers : RecordFindStudent(w)

FindProgramAny == \E w \in Workers : RecordFindProgram(w)

SaveAny == \E w \in Workers : RecordSave(w)

NextConcurrent ==
  \/ CreateForWorkers
  \/ DeleteForWorkers
  \/ SubmitForWorkers
  \/ BeginAny
  \/ FindSessionAny
  \/ FindStudentAny
  \/ FindProgramAny
  \/ SaveAny

SpecConcurrent == Init /\ [][NextConcurrent]_vars

\* Reading: a session is created and edited by an admin, then sessions,
\* student marks and report cards are read.
ReadBodies ==
  {UpdateBody(Undefined, Undefined, Undefined, Some(FALSE), Undefined),
   UpdateBody(Undefined, Undefined, Undefined, Undefined,
              Some(<<EmbeddedMark("st2", "math", 85, "admin", 0)>>)),
   UpdateBody(Undefined, Undefined, Undefined, Undefined,
              Some(<<EmbeddedMark("st2", "math", 85, "admin", 0),
                     EmbeddedMark("st1", "math", 70, "admin", 0),
                     EmbeddedMark("st2", "art", 40, "admin", 0)>>)),
   UpdateBody(Undefined, Undefined, Undefined, Undefined,
              Some(<<EmbeddedMarkNoScore("st2", "math", "admin", 0)>>))}

CreateForReads ==
  CreateSession("admin", SessionConfig(0, 2, 1, 1, 2), Some("midterm"), Some("2024"))

UpdateForReads == \E body \in ReadBodies : UpdateSession("admin", 1, body)

ToggleForReads == ToggleStatus("admin", 1)

SetGradingForReads ==
  \E scales \in ScaleInputs : SetGradingScales("superadmin", "Primary", scales)

GetSessionAny ==
  \E role \in {"teacher", "parent"}, sid \in 0..MaxSessions : GetSession(role, sid)

StudentMarksAny ==
  \E sid \in 0..MaxSessions, st \in StudentIds : StudentMarksRoute("parent", sid, st)

ReportForReads ==
  \E role \in {"teacher", "parent"}, sid \in 0..MaxSessions,
     st \in StudentIds \cup {NoId} :
    ReportCard(role, sid, st)

NextReads ==
  \/ Tick
  \/ CreateForReads
  \/ UpdateForReads
  \/ ToggleForReads
  \/ SetGradingForReads
  \/ GetSessionAny
  \/ StudentMarksAny
  \/ ReportForReads

SpecReads == Init /\ [][NextReads]_vars

\* The submit-marks handler on its own: sessions are created and toggled, and
\* the handler body runs for successive bodies, one at a time.
HandlerSubjects == {"math", "art"}

HandlerBatches ==
  { <<[studentId |-> "st1", score |-> 85]>>,
    <<[studentId |-> "st2", score |-> 150]>>,
    <<[studentId |-> "st1", score |-> 150], [studentId |-> "st1", score |-> 85]>>,
    <<[studentId |-> "st1", score |-> 85], [studentId |-> "st2", score |-> 85]>> }

CreateForHandler ==
  CreateSession("admin", SessionConfig(0, 2, 1, 1, 2), Some("midterm"), Some("2024"))

ToggleForHandler == ToggleStatus("admin", 1)

RunHandlerAny ==
  \E sid \in 0..MaxSessions, subj \in HandlerSubjects, batch \in HandlerBatches :
    RunSubmitMarksHandler("teacher", sid, subj, batch)

NextHandler ==
  \/ Tick
  \/ CreateForHandler
  \/ ToggleForHandler
  \/ RunHandlerAny

SpecHandler == Init /\ [][NextHandler]_vars

\* Updates of recorded marks: a midterm or an endterm session is created,
\* marks are recorded for it and updated with bodies that carry, among
\* others, the value 0.
UpdatePayloads ==
  { Payload(Undefined, Some(10), Some(40), Some(50), Some("better")),
    Payload(Undefined, Some(0), Some(40), Some(0), Undefined),
    Payload(Some("B"), Some(10), Some(0), Some(50), Some("better")),
    Payload(Undefined, Some(21), Some(40), Some(101), Undefined) }

RecordPayloads ==
  { Payload(Some("A"), Some(15), Some(70), Some(90), Some("good")),
    Payload(Undefined, Some(18), Some(60), Some(95), Some("good")) }

CreateForUpdates ==
  \E stype \in {Some("midterm"), Some("endterm")} :
    CreateSession("admin", SessionConfig(0, 2, 1, 1, 2), stype, Some("2024"))

RecordForUpdates ==
  \E st \in StudentIds, body \in RecordPayloads :
    RecordMarks("teacher", 1, st, "math", ClassProgram(st), body)

UpdateForUpdates ==
  \E markId \in 0..MaxMarks, updates \in UpdatePayloads :
    UpdateMarks("teacher", markId, updates)

NextUpdates ==
  \/ Tick
  \/ CreateForUpdates
  \/ RecordForUpdates
  \/ UpdateForUpdates

SpecUpdates == Init /\ [][NextUpdates]_vars

(***************************************************************************)
(* Properties                                                              *)
(***************************************************************************)
\* Roles the marks routes let through to recordMarks.
MarkWriters == {"superadmin", "admin", "teacher"}

Accepted(r) == r.status \in {200, 201}

SessionExists(sid) == Has(FindSession(sid))

SessionClosed(sid) == SessionExists(sid) /\ ~Val(FindSession(sid)).isOpen

\* A path of a document: undefined when the document does not carry it.
Get(doc, path) == IF path \in DOMAIN doc THEN Some(doc[path]) ELSE Undefined

Max2(a, b) == IF a >= b THEN a ELSE b

Min2(a, b) == IF a <= b THEN a ELSE b

\* C1: a mark submission (submit marks, recordMarks) made by a caller allowed
\* to submit, to a session that is closed (isOpen = false), is refused and
\* creates no mark record.
C1_ClosedSessionRejectsSubmission ==
  (/\ last.op \in {"submitMarks", "recordMarks"}
   /\ last.role \in MarkWriters
   /\ SessionClosed(last.sid))
    => (~Accepted(last) /\ last.markId = 0)

\* C2: deadline boundary.  A submission to an open session made no later than
\* the marks deadlines the session was created with is not turned away as
\* late, and a submission made after both deadlines is rejected, whatever
\* the value of isOpen.
C2_DeadlineBoundary ==
  (/\ last.op \in {"submitMarks", "recordMarks"}
   /\ last.role \in MarkWriters
   /\ SessionExists(last.sid))
    => LET cfg == Val(requested[last.sid])
           firstDeadline == cfg.firstMarksDeadline
           secondDeadline == cfg.secondMarksDeadline
       IN /\ (now > Max2(firstDeadline, secondDeadline)) => ~Accepted(last)
          /\ (now <= Min2(firstDeadline, secondDeadline)
                /\ Val(FindSession(last.sid)).isOpen)
               => last.status # 400

\* C3: idempotent upsert.  There is at most one StudentMark record per
\* (student, subject, exam session).
C3_OneMarkPerStudentSubjectSession ==
  \A i, j \in 1..Len(studentMarks) :
    (/\ studentMarks[i].student = studentMarks[j].student
     /\ studentMarks[i].subject = studentMarks[j].subject
     /\ studentMarks[i].examSession = studentMarks[j].examSession)
      => i = j

\* C4: every persisted kindergarten mark has no numeric score field
\* populated, and every persisted non-kindergarten mark has no grade.
C4_EntryKindMatchesLevel ==
  \A i \in 1..Len(studentMarks) :
    LET m == studentMarks[i]
    IN IF m.programLevel = "kindergarten"
         THEN ~Has(m.academicEngagement) /\ ~Has(m.midtermExam) /\ ~Has(m.endtermExam)
         ELSE ~Has(m.grade)

\* The ranges of the three Number paths of a mark.
ScoresInRange(m) ==
  /\ InRange(m.academicEngagement, 0, 20)
  /\ InRange(m.midtermExam, 0, 80)
  /\ InRange(m.endtermExam, 0, 100)

\* Every persisted score is in range and every persisted mark has a comment.
PersistedMarksValid ==
  \A i \in 1..Len(studentMarks) :
    ScoresInRange(studentMarks[i]) /\ TruthyStr(studentMarks[i].teacherComment)

\* A body that carries an out-of-range value for a score the mark of a
\* session of the given type stores.
StoredOutOfRange(sessionType, body) ==
  \/ sessionType = Some("midterm")
       /\ ~(InRange(body.academicEngagement, 0, 20) /\ InRange(body.midtermExam, 0, 80))
  \/ sessionType = Some("endterm") /\ ~InRange(body.endtermExam, 0, 100)

\* The request just served was a recordMarks or updateMarks that reached the
\* point where the mark is built and saved.
ReachedSave ==
  \/ last.op = "recordMarks" /\ last.status \notin {403, 404}
  \/ last.op = "updateMarks" /\ (last.status = 200 \/ last.message = "ValidationError")

C6_ReopenAuthorization ==
  last.op = "toggleStatus" =>
    /\ last.role \in {"teacher", "parent"} => last.status = 403
    /\ (last.role \in {"admin", "superadmin"} /\ SessionExists(last.sid))
         => /\ Accepted(last)
            /\ Val(FindSession(last.sid)).isOpen
                 => /\ Get(Val(FindSession(last.sid)), "reopenedBy") = Some(last.role)
                    /\ Get(Val(FindSession(last.sid)), "reopenedAt") = Some(now)

\* The three orderings of a session configuration.
OrderingHolds(cfg) ==
  /\ cfg.publicationDateTime > cfg.firstMarksDeadline
  /\ cfg.publicationDateTime > cfg.secondMarksDeadline
  /\ cfg.endDate >= cfg.startDate

\* C7: a create whose configuration has publicationDateTime not strictly after
\* firstMarksDeadline or secondMarksDeadline, or endDate before startDate, is
\* rejected and persists no session.
C7_CreationRejectsBadOrdering ==
  (last.op = "createSession" /\ ~OrderingHolds(Val(last.config)))
    => (~Accepted(last) /\ last.sid = 0)

\* An entry of a batch is valid when its score is a percentage.
ValidEntry(e) == e.score >= 0 /\ e.score <= 100

\* C8: a batch submitted by an admin or a teacher to an open session is
\* answered with success, each of its valid entries is persisted and none of
\* its invalid entries is.
C8_BulkIsolation ==
  (/\ last.op = "submitMarks"
   /\ last.role \in {"admin", "teacher"}
   /\ SessionExists(last.sid)
   /\ Val(FindSession(last.sid)).isOpen)
    => LET marks == Val(FindSession(last.sid)).marks
       IN /\ Accepted(last)
          /\ \A k \in 1..Len(last.batch) :
               LET e == last.batch[k]
               IN IF ValidEntry(e)
                    THEN \E i \in 1..Len(marks) : marks[i].student = e.studentId
                    ELSE ~\E i \in 1..Len(marks) :
                            marks[i].student = e.studentId /\ marks[i].score = e.score

\* The finalized values of the non-kindergarten marks of a student in a
\* session, in the order of the collection.
RECURSIVE FinalizedValues(_, _, _)
FinalizedValues(marks, sid, st) ==
  IF marks = <<>> THEN <<>>
  ELSE LET m == Head(marks)
           rest == FinalizedValues(Tail(marks), sid, st)
       IN IF /\ m.examSession = sid
             /\ m.student = st
             /\ m.programLevel # "kindergarten"
             /\ Has(finalGrade(m))
            THEN <<Val(finalGrade(m))>> \o rest
            ELSE rest

RECURSIVE SumSeq(_)
SumSeq(xs) == IF xs = <<>> THEN 0 ELSE Head(xs) + SumSeq(Tail(xs))

MaxSeq(xs) == CHOOSE x \in {xs[i] : i \in 1..Len(xs)} : \A j \in 1..Len(xs) : xs[j] <= x

MinSeq(xs) == CHOOSE x \in {xs[i] : i \in 1..Len(xs)} : \A j \in 1..Len(xs) : xs[j] >= x

\* C9: the report card of a student with non-kindergarten marks in the
\* session is produced, and its totalSubjects, averageScore, highestScore and
\* lowestScore are the count, mean, maximum and minimum of the finalized
\* values (academicEngagement + midtermExam, or endtermExam) of those marks.
C9_ReportCardStatistics ==
  LET vals == FinalizedValues(studentMarks, last.sid, last.student)
  IN (last.op = "reportCard" /\ SessionExists(last.sid) /\ vals # <<>>)
       => /\ last.status = 200
          /\ Val(last.report).totalSubjects = Len(vals)
          /\ Has(Val(last.report).averageScore)
          /\ Val(Val(last.report).averageScore).sum * Len(vals)
               = SumSeq(vals) * Val(Val(last.report).averageScore).count
          /\ Val(last.report).highestScore = Some(MaxSeq(vals))
          /\ Val(last.report).lowestScore = Some(MinSeq(vals))

\* C10: the report card of a student with a kindergarten mark in the session
\* is produced and shows the grade of that mark for its subject, and its
\* averageScore is taken over the finalized values of the other marks only.
C10_KindergartenInReportCard ==
  \A i \in 1..Len(studentMarks) :
    LET m == studentMarks[i]
        vals == FinalizedValues(studentMarks, last.sid, last.student)
    IN (/\ last.op = "reportCard"
        /\ SessionExists(last.sid)
        /\ m.examSession = last.sid
        /\ m.student = last.student
        /\ m.programLevel = "kindergarten")
         => /\ last.status = 200
            /\ \E k \in 1..Len(Val(last.report).marks) :
                 /\ Val(last.report).marks[k].subject = m.subject
                 /\ Some(Val(last.report).marks[k].grade) = m.grade
            /\ Has(Val(last.report).averageScore)
            /\ Val(Val(last.report).averageScore).sum = SumSeq(vals)
            /\ Val(Val(last.report).averageScore).count = Len(vals)

\* C11: while a session stays closed, no step changes the content of a mark
\* that belongs to it.
C11_ClosedSessionMarksImmutable ==
  [][\A i \in 1..Len(studentMarks) :
       (/\ SessionClosed(studentMarks[i].examSession)
        /\ Has(sessions'[studentMarks[i].examSession])
        /\ ~Val(sessions'[studentMarks[i].examSession]).isOpen)
         => (/\ i <= Len(studentMarks')
             /\ studentMarks'[i] = studentMarks[i])]_vars

\* The mark a recordMarks call builds from its body and the session it loaded.
MarkOf(c) ==
  NewStudentMark(c.studentId, c.examSessionId, c.subjectId, c.prg,
                 Val(c.examSession), Val(c.body))

\* The positions of the marks on record for the tuple of a call.
MarksFor(c) ==
  {i \in 1..Len(studentMarks) :
     /\ studentMarks[i].examSession = c.examSessionId
     /\ studentMarks[i].student = c.studentId
     /\ studentMarks[i].subject = c.subjectId}

\* Both concurrent calls have been answered 201.
BothRecorded ==
  \A w \in Workers : inflight[w].pc = "done" /\ inflight[w].status = 201

\* C12: when two concurrent submissions for the same (session, student,
\* subject) have both succeeded, exactly one mark is on record for the tuple
\* and its content is that of one of the two writers.
C12_ConcurrentSameTupleOneMark ==
  (/\ BothRecorded
   /\ inflight["w1"].examSessionId = inflight["w2"].examSessionId
   /\ inflight["w1"].studentId = inflight["w2"].studentId
   /\ inflight["w1"].subjectId = inflight["w2"].subjectId)
    => (/\ Cardinality(MarksFor(inflight["w1"])) = 1
        /\ \A i \in MarksFor(inflight["w1"]) :
             \E w \in Workers : studentMarks[i] = MarkOf(inflight[w]))

LastDeadline(sid) ==
  Max2(Val(requested[sid]).firstMarksDeadline, Val(requested[sid]).secondMarksDeadline)

\* C14: at the step in which the time passes the later marks deadline of a
\* session, the session is closed (isOpen = false).
C14_AutoClose ==
  [][\A sid \in SessionIds :
       (/\ Has(sessions[sid])
        /\ Has(sessions'[sid])
        /\ now <= LastDeadline(sid)
        /\ now' > LastDeadline(sid))
         => ~Val(sessions'[sid]).isOpen]_vars

\* C15: a session is created in status draft, and a session that is closed
\* when the time is at or after its publicationDateTime is published.
C15_StatusLifecycle ==
  /\ (last.op = "createSession" /\ Accepted(last))
       => Get(Val(FindSession(last.sid)), "status") = Some("draft")
  /\ \A sid \in SessionIds :
       (/\ SessionClosed(sid)
        /\ now >= Val(Val(FindSession(sid)).publicationDateTime))
         => Get(Val(FindSession(sid)), "status") = Some("published")

\* C16: a reopen (a toggle that leaves the session open) sets status = active
\* together with isOpen = true.
C16_ReopenSetsActive ==
  (/\ last.op = "toggleStatus"
   /\ Accepted(last)
   /\ last.message = "Exam session opened successfully"
   /\ SessionExists(last.sid))
    => (/\ Val(FindSession(last.sid)).isOpen
        /\ Get(Val(FindSession(last.sid)), "status") = Some("active"))

\* C17: the submit-marks route lets an admin, a superadmin and a teacher
\* through and answers any other role with 403.
C17_SubmitRoleGate ==
  last.op = "submitMarks" =>
    IF last.role \in {"admin", "superadmin", "teacher"}
      THEN last.status # 403
      ELSE last.status = 403

\* The label of the first band of the list that contains the score, "N/A"
\* when no band does.
FirstBandGrade(bands, score) ==
  LET hits == {i \in 1..Len(bands) :
                 bands[i].minScore <= score /\ score <= bands[i].maxScore}
  IN IF hits = {} THEN "N/A"
     ELSE bands[CHOOSE i \in hits : \A j \in hits : i <= j].grade

C19_RejectedLeavesStateUnchanged ==
  [][(/\ last'.op \in {"submitMarks", "recordMarks", "updateMarks"}
      /\ last'.status \in {400, 403, 404, 500})
       => (studentMarks' = studentMarks /\ sessions' = sessions)]_vars

\* An updateMarks carrying academicEngagement 21 for a midterm mark on record
\* was refused by the validation.
C19_Witness ==
  /\ last.op = "updateMarks"
  /\ last.status = 500
  /\ last.message = "ValidationError"
  /\ Val(last.payload).academicEngagement = Some(21)
  /\ last.markId \in 1..Len(studentMarks)
  /\ studentMarks[last.markId].sessionType = Some("midterm")

\* C20: the step of a successful delete of a session leaves no StudentMark
\* that refers to the session.
C20_DeleteCascades ==
  [][(/\ last'.op = "deleteSession"
      /\ Accepted(last')
      /\ sessions' # sessions)
       => \A i \in 1..Len(studentMarks') :
            studentMarks'[i].examSession # last'.sid]_vars

\* C21: a parent who asks for the marks or the report card of a student who
\* is not one of the parent's children is refused.
C21_ParentReadScoping ==
  (/\ last.op \in {"studentMarks", "reportCard"}
   /\ last.role = "parent"
   /\ last.student \in StudentIds \ ParentChildren
   /\ SessionExists(last.sid))
    => ~Accepted(last)

\* The embedded marks of the student the last request named.
OwnEmbedded ==
  IF SessionExists(last.sid)
    THEN FilterByStudent(Val(FindSession(last.sid)).marks, last.student)
    ELSE <<>>

\* C22: a report card asked for a student who has marks while the student's
\* program has no grading scale is answered with a ConfigurationError.
C22_MissingScaleIsConfigurationError ==
  (/\ last.op = "reportCard"
   /\ OwnEmbedded # <<>>
   /\ ~Has(gradingScales[StudentProgram(last.student)]))
    => (~Accepted(last) /\ last.message = "ConfigurationError")

\* C24: a session read after both of its marks deadlines is not reported
\* as open.
C24_LazyStatusOnRead ==
  (/\ last.op = "getSession"
   /\ last.status = 200
   /\ now > LastDeadline(last.sid))
    => ~Val(last.report).isOpen

C23_ToggleDoesNotBypassDeadlines ==
  [][(/\ last.op = "toggleStatus"
      /\ Accepted(last)
      /\ SessionExists(last.sid)
      /\ Val(FindSession(last.sid)).isOpen
      /\ now > LastDeadline(last.sid)
      /\ last'.op \in {"submitMarks", "recordMarks"}
      /\ last'.role \in MarkWriters
      /\ last'.sid = last.sid)
       => ~Accepted(last')]_vars

\* C25: recordMarks with an unknown session, updateMarks with an unknown mark
\* id and a report card of an unknown session are answered 404 and create no
\* mark.
C25_MissingReferentNotFound ==
  /\ (last.op = "recordMarks" /\ last.role \in MarkWriters /\ ~SessionExists(last.sid))
       => (last.status = 404 /\ last.markId = 0)
  /\ (last.op = "updateMarks" /\ last.markId \notin 1..Len(studentMarks))
       => last.status = 404
  /\ (last.op = "reportCard" /\ ~SessionExists(last.sid))
       => last.status = 404

\* The orderings of a stored session, with the deadlines it was created with.
StoredOrderingHolds(doc, cfg) ==
  OrderingHolds(SessionConfig(Val(doc.startDate), Val(doc.endDate),
                              cfg.firstMarksDeadline, cfg.secondMarksDeadline,
                              Val(doc.publicationDateTime)))

\* C26: an update of a session whose dates are in order leaves them in order.
C26_UpdatePreservesOrdering ==
  [][\A sid \in SessionIds :
       (/\ last'.op = "updateSession"
        /\ Has(sessions[sid])
        /\ Has(sessions'[sid])
        /\ StoredOrderingHolds(Val(sessions[sid]), Val(requested[sid])))
         => StoredOrderingHolds(Val(sessions'[sid]), Val(requested[sid]))]_vars

\* C27: when the submit-marks handler runs one body after another, the
\* embedded list of every session holds at most one mark per (student,
\* subject); and a body the handler applies leaves, for each of its students
\* and its subject, one mark with the score of the last entry of the body for
\* the student, the caller as submittedBy and the time of the call as
\* submittedAt, and leaves the marks of every other pair as they were.
PairCount(marks, st, subj) ==
  Cardinality({i \in 1..Len(marks) : marks[i].student = st /\ marks[i].subject = subj})

LastEntryFor(batch, st) ==
  CHOOSE j \in 1..Len(batch) :
    /\ batch[j].studentId = st
    /\ \A l \in 1..Len(batch) : batch[l].studentId = st => l <= j

InBatch(batch, st) == \E k \in 1..Len(batch) : batch[k].studentId = st

EmbeddedPairsUnique ==
  \A sid \in SessionIds :
    Has(sessions[sid]) =>
      \A st \in StudentIds, subj \in HandlerSubjects :
        PairCount(Val(sessions[sid]).marks, st, subj) <= 1

SubmitAppliesLast ==
  (last'.op = "submitMarks" /\ Accepted(last'))
    => LET before == Val(sessions[last'.sid]).marks
           after == Val(sessions'[last'.sid]).marks
           batch == last'.batch
       IN \E subj \in HandlerSubjects :
            /\ \A st \in StudentIds :
                 IF InBatch(batch, st)
                   THEN \E i \in 1..Len(after) :
                          after[i] = EmbeddedMark(st, subj,
                                                  batch[LastEntryFor(batch, st)].score,
                                                  last'.role, now)
                   ELSE PairCount(after, st, subj) = PairCount(before, st, subj)
            /\ \A i \in 1..Len(before) :
                 (before[i].subject # subj \/ ~InBatch(batch, before[i].student))
                   => after[i] = before[i]
            /\ \A i \in 1..Len(after) :
                 i > Len(before) => (after[i].subject = subj /\ InBatch(batch, after[i].student))

C29_UpdateMarksFrame ==
  [][(last'.op = "updateMarks" /\ Accepted(last'))
       => LET before == studentMarks[last'.markId]
              after == studentMarks'[last'.markId]
              updates == Val(last'.payload)
          IN /\ Len(studentMarks') = Len(studentMarks)
             /\ \A i \in 1..Len(studentMarks) :
                  i # last'.markId => studentMarks'[i] = studentMarks[i]
             /\ after.student = before.student
             /\ after.examSession = before.examSession
             /\ after.subject = before.subject
             /\ after.programLevel = before.programLevel
             /\ after.sessionType = before.sessionType
             /\ after.term = before.term
             /\ before.sessionType = Some("midterm")
                  => /\ after.endtermExam = before.endtermExam
                     /\ Has(updates.academicEngagement)
                          => after.academicEngagement = updates.academicEngagement
                     /\ Has(updates.midtermExam)
                          => after.midtermExam = updates.midtermExam
             /\ before.sessionType = Some("endterm")
                  => /\ after.academicEngagement = before.academicEngagement
                     /\ after.midtermExam = before.midtermExam
                     /\ Has(updates.endtermExam)
                          => after.endtermExam = updates.endtermExam]_vars

====
